---------------------------- MODULE Spec2Model ----------------------------
(***************************************************************************)
(* Model of tpsp (cmd/tpsp/main.go): a command-line program that parses    *)
(* its arguments, issues one HTTP GET, filters the decoded line statuses   *)
(* by service and renders a table or a JSON document.                      *)
(*                                                                         *)
(* A Go string is a sequence of bytes (0..255).  The library functions     *)
(* main.go calls (strings.ToLower, ToUpper, TrimSpace, EqualFold, Split,   *)
(* the string(byte) conversion, encoding/json's string quoting) are        *)
(* modelled on bytes and runes as the Go implementation computes them.     *)
(* The Unicode tables are modelled for U+0000..U+00FF and the few code     *)
(* points their case mappings lead to; the inputs drawn below stay in      *)
(* that range.                                                             *)
(***************************************************************************)
EXTENDS Integers, Sequences, FiniteSets, TLC

(***************************************************************************)
(* Bounds of the model.                                                    *)
(***************************************************************************)
MaxArgs == 3        \* number of command-line arguments after the program name
MaxChars == 3       \* characters in a drawn line label
MaxPad == 1         \* white-space characters drawn on each side of a status
MaxBatches == 2     \* batches in a drawn filterByService input
MaxItems == 2       \* line items in a drawn printJSON input

(***************************************************************************)
(* Generic sequence helpers.                                               *)
(***************************************************************************)
Range(s) == { s[i] : i \in DOMAIN s }

RECURSIVE Flatten(_)
Flatten(ss) == IF ss = <<>> THEN <<>> ELSE Head(ss) \o Flatten(Tail(ss))

Max(a, b) == IF a >= b THEN a ELSE b

\* s[from:to] of Go, 0-based, to exclusive.
Slice(s, from, to) == SubSeq(s, from + 1, to)

(***************************************************************************)
(* unicode/utf8.                                                           *)
(***************************************************************************)
RuneError == 65533
RuneSelf == 128

IsCont(b, lo, hi) == b >= lo /\ b <= hi

\* utf8.DecodeRuneInString: <<rune, width>>; an invalid or short sequence
\* decodes to <<RuneError, 1>>, the empty string to <<RuneError, 0>>.
DecodeRune(s) ==
  LET n == Len(s) IN
  IF n = 0 THEN <<RuneError, 0>>
  ELSE LET b0 == s[1] IN
    IF b0 < RuneSelf THEN <<b0, 1>>
    ELSE IF b0 >= 194 /\ b0 <= 223 THEN
      IF n >= 2 /\ IsCont(s[2], 128, 191)
      THEN <<(b0 - 192) * 64 + (s[2] - 128), 2>>
      ELSE <<RuneError, 1>>
    ELSE IF b0 >= 224 /\ b0 <= 239 THEN
      LET lo == IF b0 = 224 THEN 160 ELSE 128
          hi == IF b0 = 237 THEN 159 ELSE 191
      IN IF n >= 3 /\ IsCont(s[2], lo, hi) /\ IsCont(s[3], 128, 191)
         THEN <<(b0 - 224) * 4096 + (s[2] - 128) * 64 + (s[3] - 128), 3>>
         ELSE <<RuneError, 1>>
    ELSE IF b0 >= 240 /\ b0 <= 244 THEN
      LET lo == IF b0 = 240 THEN 144 ELSE 128
          hi == IF b0 = 244 THEN 143 ELSE 191
      IN IF n >= 4 /\ IsCont(s[2], lo, hi) /\ IsCont(s[3], 128, 191)
              /\ IsCont(s[4], 128, 191)
         THEN <<(b0 - 240) * 262144 + (s[2] - 128) * 4096
                  + (s[3] - 128) * 64 + (s[4] - 128), 4>>
         ELSE <<RuneError, 1>>
    ELSE <<RuneError, 1>>

\* utf8.RuneStart
RuneStart(b) == ~(b >= 128 /\ b <= 191)

\* utf8.DecodeLastRuneInString: <<rune, width>>.
DecodeLastRune(s) ==
  LET end == Len(s) IN
  IF end = 0 THEN <<RuneError, 0>>
  ELSE IF s[end] < RuneSelf THEN <<s[end], 1>>
  ELSE
    LET lim == Max(end - 4, 0)
        \* 0-based candidates end-2 down to lim, the first that is a rune start
        cands == { k \in lim..(end - 2) : RuneStart(s[k + 1]) }
        found == IF cands = {} THEN lim - 1
                 ELSE CHOOSE k \in cands : \A j \in cands : j <= k
        start == Max(found, 0)
        d == DecodeRune(Slice(s, start, end))
    IN IF start + d[2] # end THEN <<RuneError, 1>> ELSE d

\* utf8.AppendRune / the string(rune) conversion: a surrogate or an
\* out-of-range value encodes as U+FFFD.
EncodeRune(r) ==
  IF r < 0 \/ r > 1114111 \/ (r >= 55296 /\ r <= 57343) THEN <<239, 191, 189>>
  ELSE IF r < 128 THEN <<r>>
  ELSE IF r < 2048 THEN <<192 + (r \div 64), 128 + (r % 64)>>
  ELSE IF r < 65536 THEN
    <<224 + (r \div 4096), 128 + ((r \div 64) % 64), 128 + (r % 64)>>
  ELSE <<240 + (r \div 262144), 128 + ((r \div 4096) % 64),
         128 + ((r \div 64) % 64), 128 + (r % 64)>>

\* The runes a `for _, r := range s` loop sees.
RECURSIVE Runes(_)
Runes(s) ==
  IF s = <<>> THEN <<>>
  ELSE LET d == DecodeRune(s) IN <<d[1]>> \o Runes(Slice(s, d[2], Len(s)))

(***************************************************************************)
(* unicode: case mappings and white space, for U+0000..U+00FF and the code *)
(* points those map to.                                                    *)
(***************************************************************************)
IsLatin1Upper(r) == r >= 192 /\ r <= 222 /\ r # 215
IsLatin1Lower(r) == r >= 224 /\ r <= 254 /\ r # 247

\* unicode.ToLower
UnicodeToLower(r) ==
  IF r >= 65 /\ r <= 90 THEN r + 32
  ELSE IF IsLatin1Upper(r) THEN r + 32
  ELSE IF r = 376 THEN 255
  ELSE IF r = 924 THEN 956
  ELSE r

\* unicode.ToUpper
UnicodeToUpper(r) ==
  IF r >= 97 /\ r <= 122 THEN r - 32
  ELSE IF IsLatin1Lower(r) THEN r - 32
  ELSE IF r = 255 THEN 376
  ELSE IF r = 181 THEN 924
  ELSE IF r = 956 THEN 924
  ELSE r

\* unicode.SimpleFold: the next code point of r's case orbit.
SimpleFold(r) ==
  IF r = 75 THEN 107 ELSE IF r = 107 THEN 8490 ELSE IF r = 8490 THEN 75
  ELSE IF r = 83 THEN 115 ELSE IF r = 115 THEN 383 ELSE IF r = 383 THEN 83
  ELSE IF r = 181 THEN 924 ELSE IF r = 924 THEN 956 ELSE IF r = 956 THEN 181
  ELSE IF r = 197 THEN 229 ELSE IF r = 229 THEN 8491 ELSE IF r = 8491 THEN 197
  ELSE IF r = 223 THEN 7838 ELSE IF r = 7838 THEN 223
  ELSE IF r = 255 THEN 376 ELSE IF r = 376 THEN 255
  ELSE IF r >= 65 /\ r <= 90 THEN r + 32
  ELSE IF r >= 97 /\ r <= 122 THEN r - 32
  ELSE IF IsLatin1Upper(r) THEN r + 32
  ELSE IF IsLatin1Lower(r) THEN r - 32
  ELSE r

\* unicode.IsSpace
UnicodeIsSpace(r) ==
  \/ r \in {9, 10, 11, 12, 13, 32, 133, 160, 5760, 8232, 8233, 8239, 8287, 12288}
  \/ (r >= 8192 /\ r <= 8202)

\* strings.asciiSpace
AsciiSpace(b) == b \in {9, 10, 11, 12, 13, 32}

(***************************************************************************)
(* strings.                                                                *)
(***************************************************************************)
IsASCII(s) == \A i \in DOMAIN s : s[i] < RuneSelf

\* strings.Map(mapping, s) for a mapping that drops nothing: every rune of
\* s, an invalid byte read as U+FFFD, mapped and encoded again.
RECURSIVE MapLower(_)
MapLower(s) ==
  IF s = <<>> THEN <<>>
  ELSE LET d == DecodeRune(s) IN
    EncodeRune(UnicodeToLower(d[1])) \o MapLower(Slice(s, d[2], Len(s)))

RECURSIVE MapUpper(_)
MapUpper(s) ==
  IF s = <<>> THEN <<>>
  ELSE LET d == DecodeRune(s) IN
    EncodeRune(UnicodeToUpper(d[1])) \o MapUpper(Slice(s, d[2], Len(s)))

\* strings.ToLower
ToLower(s) ==
  IF IsASCII(s)
  THEN [i \in DOMAIN s |-> IF s[i] >= 65 /\ s[i] <= 90 THEN s[i] + 32 ELSE s[i]]
  ELSE MapLower(s)

\* strings.ToUpper
ToUpper(s) ==
  IF IsASCII(s)
  THEN [i \in DOMAIN s |-> IF s[i] >= 97 /\ s[i] <= 122 THEN s[i] - 32 ELSE s[i]]
  ELSE MapUpper(s)

\* strings.TrimLeftFunc(s, unicode.IsSpace)
RECURSIVE TrimLeftSpace(_)
TrimLeftSpace(s) ==
  IF s = <<>> THEN s
  ELSE LET d == DecodeRune(s) IN
    IF UnicodeIsSpace(d[1]) THEN TrimLeftSpace(Slice(s, d[2], Len(s))) ELSE s

\* strings.TrimRightFunc(s, unicode.IsSpace)
RECURSIVE TrimRightSpace(_)
TrimRightSpace(s) ==
  IF s = <<>> THEN s
  ELSE LET d == DecodeLastRune(s) IN
    IF UnicodeIsSpace(d[1]) THEN TrimRightSpace(Slice(s, 0, Len(s) - d[2])) ELSE s

\* strings.TrimSpace: the ASCII fast path from each end, falling back to
\* the rune-aware trim at the first non-ASCII byte met.
RECURSIVE TrimSpaceFrom(_, _)
TrimSpaceFrom(s, start) ==
  IF start >= Len(s) THEN <<>>
  ELSE IF s[start + 1] >= RuneSelf
    THEN TrimRightSpace(TrimLeftSpace(Slice(s, start, Len(s))))
  ELSE IF AsciiSpace(s[start + 1]) THEN TrimSpaceFrom(s, start + 1)
  ELSE
    LET RECURSIVE Stop(_)
        Stop(stop) ==
          IF stop <= start THEN <<>>
          ELSE IF s[stop] >= RuneSelf THEN TrimRightSpace(Slice(s, start, stop))
          ELSE IF AsciiSpace(s[stop]) THEN Stop(stop - 1)
          ELSE Slice(s, start, stop)
    IN Stop(Len(s))

TrimSpace(s) == TrimSpaceFrom(s, 0)

\* The fold comparison of one rune pair in strings.EqualFold.
RECURSIVE FoldReaches(_, _, _)
FoldReaches(r, sr, tr) ==
  IF r # sr /\ r < tr THEN FoldReaches(SimpleFold(r), sr, tr) ELSE r = tr

FoldEqRune(a, b) ==
  LET sr == IF a <= b THEN a ELSE b
      tr == IF a <= b THEN b ELSE a
  IN \/ sr = tr
     \/ /\ sr # tr
        /\ IF tr < RuneSelf
           THEN sr >= 65 /\ sr <= 90 /\ tr = sr + 32
           ELSE FoldReaches(SimpleFold(sr), sr, tr)

\* strings.EqualFold
EqualFold(s, t) ==
  LET rs == Runes(s)
      rt == Runes(t)
  IN /\ Len(rs) = Len(rt)
     /\ \A i \in DOMAIN rs : FoldEqRune(rs[i], rt[i])

\* Variant of HasDashPrefix that takes only "--" for a flag's prefix.
HasDoubleDashPrefix(s) == Len(s) >= 2 /\ s[1] = 45 /\ s[2] = 45

\* strings.HasPrefix(s, "-")
HasDashPrefix(s) == Len(s) >= 1 /\ s[1] = 45

\* parts[len(parts)-1] of strings.Split(s, "-"): the text after the last "-".
LastDashPart(s) ==
  LET dashes == { i \in DOMAIN s : s[i] = 45 } IN
  IF dashes = {} THEN s
  ELSE LET last == CHOOSE i \in dashes : \A j \in dashes : j <= i
       IN SubSeq(s, last + 1, Len(s))


(***************************************************************************)
(* String literals of main.go, as bytes.                                   *)
(***************************************************************************)
S_metro == <<109,101,116,114,111>>
S_cptm == <<99,112,116,109>>
S_viamobilidade == <<118,105,97,109,111,98,105,108,105,100,97,100,101>>
S_viaquatro == <<118,105,97,113,117,97,116,114,111>>
validServices == <<S_metro, S_cptm, S_viamobilidade, S_viaquatro>>

F_j == <<45,106>>
F_json == <<45,45,106,115,111,110>>
F_v == <<45,118>>
F_version == <<45,45,118,101,114,115,105,111,110>>
F_copyright == <<45,45,99,111,112,121,114,105,103,104,116>>
F_h == <<45,104>>
F_help == <<45,45,104,101,108,112>>

S_verde == <<118,101,114,100,101>>
S_amarelo == <<97,109,97,114,101,108,111>>
S_vermelho == <<118,101,114,109,101,108,104,111>>
S_cinza == <<99,105,110,122,97>>

\* "operações encerradas", "operações normais" and what they map to
S_operacoes_encerradas ==
  <<111,112,101,114,97,195,167,195,181,101,115,32,101,110,99,101,114,114,97,100,97,115>>
S_operacoes_normais ==
  <<111,112,101,114,97,195,167,195,181,101,115,32,110,111,114,109,97,105,115>>
S_Operacao_Encerrada ==
  <<79,112,101,114,97,195,167,195,163,111,32,69,110,99,101,114,114,97,100,97>>
S_Operacao_Normal ==
  <<79,112,101,114,97,195,167,195,163,111,32,78,111,114,109,97,108>>

S_success == <<115,117,99,99,101,115,115>>

(***************************************************************************)
(* The pure functions of main.go.  A LineItem is a record with the fields  *)
(* the program reads (ID, Line, Status, StatusColor); a ServiceData is     *)
(* [Type, ListItem].                                                       *)
(***************************************************************************)
getColorForStatus(statusColor) ==
  LET l == ToLower(statusColor) IN
  IF l = S_verde THEN "colorGreen"
  ELSE IF l = S_amarelo THEN "colorYellow"
  ELSE IF l = S_vermelho THEN "colorRed"
  ELSE IF l = S_cinza THEN "colorDim"
  ELSE "colorReset"

formatLineName(line) ==
  LET name == TrimSpace(LastDashPart(line)) IN
  IF Len(name) = 0 THEN name
  ELSE ToUpper(EncodeRune(name[1])) \o ToLower(Slice(name, 1, Len(name)))

\* Variant of normalizeStatus that matches the two phrases as they are
\* capitalised upstream, without folding case.
normalizeStatusExact(status) ==
  LET st == TrimSpace(status) IN
  IF st = <<79,112,101,114,97,195,167,195,181,101,115,32,69,110,99,101,114,114,97,100,97,115>>
  THEN S_Operacao_Encerrada
  ELSE IF st = <<79,112,101,114,97,195,167,195,181,101,115,32,78,111,114,109,97,105,115>>
  THEN S_Operacao_Normal
  ELSE st

normalizeStatus(status) ==
  LET st == TrimSpace(status)
      l == ToLower(st)
  IN IF l = S_operacoes_encerradas THEN S_Operacao_Encerrada
     ELSE IF l = S_operacoes_normais THEN S_Operacao_Normal
     ELSE st

\* The loop of filterByService from batch i on, result being what it has
\* appended so far.
RECURSIVE filterLoop(_, _, _, _)
filterLoop(data, service, i, result) ==
  IF i > Len(data) THEN result
  ELSE filterLoop(data, service, i + 1,
         IF service = <<>> \/ EqualFold(data[i].Type, service)
         THEN result \o data[i].ListItem
         ELSE result)

\* Variant of filterByService that compares the operator type exactly.
filterByServiceExact(data, service) ==
  LET RECURSIVE loop(_, _)
      loop(k, result) ==
        IF k > Len(data) THEN result
        ELSE loop(k + 1, IF service = <<>> \/ data[k].Type = service
                         THEN result \o data[k].ListItem ELSE result)
  IN loop(1, <<>>)

filterByService(data, service) == filterLoop(data, service, 1, <<>>)

\* Variant of isValidService that takes the empty string for "no filter".
isValidServiceLax(service) ==
  \/ service = <<>>
  \/ \E k \in DOMAIN validServices : EqualFold(validServices[k], service)

isValidService(service) ==
  \E k \in DOMAIN validServices : EqualFold(validServices[k], service)

\* utf8.RuneCountInString, the width fmt pads to
RuneCount(s) == Len(Runes(s))

\* printTable: what it writes, as the header's width, the divider's length
\* and one row per line (name, padding after it, colour, status).
printTable(lines) ==
  LET RECURSIVE widest(_, _)
      widest(i, maxLen) ==
        IF i > Len(lines) THEN maxLen
        ELSE widest(i + 1, Max(maxLen, Len(formatLineName(lines[i].Line))))
      maxLen == widest(1, 5)
  IN [kind |-> "table",
      width |-> maxLen,
      divider |-> maxLen + 2 + 20,
      rows |-> [i \in 1..Len(lines) |->
                 LET name == formatLineName(lines[i].Line) IN
                 [name |-> name,
                  pad |-> Max(maxLen - RuneCount(name), 0),
                  color |-> getColorForStatus(lines[i].StatusColor),
                  status |-> normalizeStatus(lines[i].Status)]]]

(***************************************************************************)
(* encoding/json, as far as printJSON uses it: a document is the record of *)
(* its members' encoded values; a string is encoded to its quoted literal  *)
(* and an integer to its decimal digits.                                   *)
(***************************************************************************)
HexDigit(v) == IF v < 10 THEN 48 + v ELSE 87 + v

HexValue(c) ==
  IF c >= 48 /\ c <= 57 THEN c - 48
  ELSE IF c >= 97 /\ c <= 102 THEN c - 87
  ELSE IF c >= 65 /\ c <= 70 THEN c - 55
  ELSE -1

\* encoding/json htmlSafeSet
HtmlSafe(b) == b >= 32 /\ b < RuneSelf /\ b \notin {34, 38, 60, 62, 92}

\* The body of a quoted string (encoding/json appendString, escapeHTML on).
RECURSIVE EscapeBody(_)
EscapeBody(s) ==
  IF s = <<>> THEN <<>>
  ELSE LET b == s[1] IN
    IF b < RuneSelf THEN
      (IF HtmlSafe(b) THEN <<b>>
       ELSE IF b = 92 \/ b = 34 THEN <<92, b>>
       ELSE IF b = 10 THEN <<92, 110>>
       ELSE IF b = 13 THEN <<92, 114>>
       ELSE IF b = 9 THEN <<92, 116>>
       ELSE <<92, 117, 48, 48, HexDigit(b \div 16), HexDigit(b % 16)>>)
      \o EscapeBody(Tail(s))
    ELSE LET d == DecodeRune(s) IN
      (IF d[1] = RuneError /\ d[2] = 1 THEN <<92, 117, 102, 102, 102, 100>>
       ELSE IF d[1] = 8232 THEN <<92, 117, 50, 48, 50, 56>>
       ELSE IF d[1] = 8233 THEN <<92, 117, 50, 48, 50, 57>>
       ELSE Slice(s, 0, d[2]))
      \o EscapeBody(Slice(s, d[2], Len(s)))

EncodeString(s) == <<34>> \o EscapeBody(s) \o <<34>>

\* The body of a quoted string decoded (encoding/json unquote); <<-1>> when
\* the literal is malformed.  A \u escape is four hex digits; a surrogate
\* it names decodes to U+FFFD.
RECURSIVE UnescapeBody(_)
UnescapeBody(q) ==
  IF q = <<>> THEN <<>>
  ELSE LET c == q[1]
           join(h, t) == IF t = <<-1>> THEN <<-1>> ELSE h \o t
       IN
    IF c = 92 THEN
      IF Len(q) < 2 THEN <<-1>>
      ELSE LET e == q[2] IN
        IF e \in {34, 92, 47} THEN join(<<e>>, UnescapeBody(Slice(q, 2, Len(q))))
        ELSE IF e = 98 THEN join(<<8>>, UnescapeBody(Slice(q, 2, Len(q))))
        ELSE IF e = 102 THEN join(<<12>>, UnescapeBody(Slice(q, 2, Len(q))))
        ELSE IF e = 110 THEN join(<<10>>, UnescapeBody(Slice(q, 2, Len(q))))
        ELSE IF e = 114 THEN join(<<13>>, UnescapeBody(Slice(q, 2, Len(q))))
        ELSE IF e = 116 THEN join(<<9>>, UnescapeBody(Slice(q, 2, Len(q))))
        ELSE IF e = 117 THEN
          IF Len(q) < 6 \/ \E k \in 3..6 : HexValue(q[k]) < 0 THEN <<-1>>
          ELSE LET r == HexValue(q[3]) * 4096 + HexValue(q[4]) * 256
                          + HexValue(q[5]) * 16 + HexValue(q[6])
               IN join(EncodeRune(r), UnescapeBody(Slice(q, 6, Len(q))))
        ELSE <<-1>>
    ELSE IF c = 34 \/ c < 32 THEN <<-1>>
    ELSE IF c < RuneSelf THEN join(<<c>>, UnescapeBody(Tail(q)))
    ELSE LET d == DecodeRune(q) IN
      join(EncodeRune(d[1]), UnescapeBody(Slice(q, d[2], Len(q))))

DecodeString(lit) ==
  IF Len(lit) < 2 \/ lit[1] # 34 \/ lit[Len(lit)] # 34 THEN <<-1>>
  ELSE UnescapeBody(Slice(lit, 1, Len(lit) - 1))

\* strconv.AppendInt(n, 10) for n >= 0, and its inverse.
RECURSIVE EncodeInt(_)
EncodeInt(n) ==
  IF n < 10 THEN <<48 + n>> ELSE EncodeInt(n \div 10) \o <<48 + (n % 10)>>

RECURSIVE DecodeInt(_)
DecodeInt(ds) ==
  IF Len(ds) = 1 THEN ds[1] - 48
  ELSE DecodeInt(Slice(ds, 0, Len(ds) - 1)) * 10 + (ds[Len(ds)] - 48)

\* Variant of OutputOf that copies the status as received.
OutputOfRaw(lines) ==
  [Code |-> 200,
   Data |-> [k \in 1..Len(lines) |->
              [Line |-> formatLineName(lines[k].Line),
               Status |-> lines[k].Status]],
   Message |-> S_success]

\* printJSON: the OutputResponse it builds.
OutputOf(lines) ==
  [Code |-> 200,
   Data |-> [i \in 1..Len(lines) |->
              [Line |-> formatLineName(lines[i].Line),
               Status |-> normalizeStatus(lines[i].Status)]],
   Message |-> S_success]

\* encoder.Encode(output): the document written to standard output.
EncodeOutput(output) ==
  [kind |-> "json",
   code |-> EncodeInt(output.Code),
   data |-> [i \in 1..Len(output.Data) |->
              [line |-> EncodeString(output.Data[i].Line),
               status |-> EncodeString(output.Data[i].Status)]],
   message |-> EncodeString(output.Message)]

printJSON(lines) == EncodeOutput(OutputOf(lines))

\* json.Unmarshal of such a document into an OutputResponse.
DecodeOutput(doc) ==
  [Code |-> DecodeInt(doc.code),
   Data |-> [i \in 1..Len(doc.data) |->
              [Line |-> DecodeString(doc.data[i].line),
               Status |-> DecodeString(doc.data[i].status)]],
   Message |-> DecodeString(doc.message)]


(***************************************************************************)
(* Inputs: the command lines and the upstream API's answers the runs are   *)
(* checked on.                                                             *)
(***************************************************************************)
A_x == <<45,120>>                   \* "-x"
A_J == <<45,74>>                    \* "-J"
A_Cptm == <<67,112,116,109>>        \* "Cptm"
A_METRO == <<77,69,84,82,79>>       \* "METRO"
A_bus == <<98,117,115>>             \* "bus"

ArgVocab ==
  {F_j, F_json, F_v, F_version, F_copyright, F_h, F_help,
   A_x, A_J, S_metro, A_Cptm, A_bus, <<>>}

ArgLists == UNION { [1..n -> ArgVocab] : n \in 0..MaxArgs }

Item(id, line, status, statusColor) ==
  [ID |-> id, Line |-> line, Status |-> status, StatusColor |-> statusColor]

\* "Linha 1-Azul", "Operação Normal", "verde"
L_azul == Item(<<49>>, <<76,105,110,104,97,32,49,45,65,122,117,108>>,
               S_Operacao_Normal, S_verde)
\* "Linha 4-Amarela", "Operações Normais", "Verde"
L_amarela == Item(<<52>>, <<76,105,110,104,97,32,52,45,65,109,97,114,101,108,97>>,
                  <<79,112,101,114,97,195,167,195,181,101,115,32,78,111,114,109,97,105,115>>,
                  <<86,101,114,100,101>>)
\* "Linha 11-CORAL", " Velocidade Reduzida", "amarelo"
L_coral == Item(<<49,49>>, <<76,105,110,104,97,32,49,49,45,67,79,82,65,76>>,
                <<32,86,101,108,111,99,105,100,97,100,101,32,82,101,100,117,122,105,100,97>>,
                S_amarelo)
\* "Linha 5-Lilás", "OPERAÇÕES ENCERRADAS", "cinza"
L_lilas == Item(<<53>>, <<76,105,110,104,97,32,53,45,76,105,108,195,161,115>>,
                <<79,80,69,82,65,195,135,195,149,69,83,32,69,78,67,69,82,82,65,68,65,83>>,
                S_cinza)

Batch(type, items) == [Type |-> type, ListItem |-> items]

DataSet ==
  { <<>>,
    <<Batch(S_metro, <<L_azul, L_amarela>>)>>,
    <<Batch(A_METRO, <<L_azul>>), Batch(S_cptm, <<L_coral, L_lilas>>)>>,
    <<Batch(S_cptm, <<L_coral>>), Batch(S_metro, <<>>), Batch(A_Cptm, <<L_lilas>>)>>,
    <<Batch(S_viaquatro, <<L_amarela>>)>> }

ApiResponses == [Status : BOOLEAN, Data : DataSet]

\* What the HTTP exchange can come to: the request fails, or it answers
\* with a status code and a body that decodes to an APIResponse or does not.
FetchOutcomes ==
  { [netErr |-> TRUE, statusCode |-> 0, decodeErr |-> FALSE, body |-> <<>>] }
  \cup { [netErr |-> FALSE, statusCode |-> c, decodeErr |-> FALSE, body |-> <<>>]
           : c \in {404, 500} }
  \cup { [netErr |-> FALSE, statusCode |-> 200, decodeErr |-> TRUE, body |-> <<>>] }
  \cup { [netErr |-> FALSE, statusCode |-> 200, decodeErr |-> FALSE, body |-> r]
           : r \in ApiResponses }

(***************************************************************************)
(* State.                                                                  *)
(***************************************************************************)
VARIABLES
  osArgs,          \* os.Args[1:]
  i,               \* the parse loop's index into osArgs, from 1
  args,            \* the positional arguments collected
  jsonOutput, showVersion, showCopyright, showHelp,
  serviceFilter,
  apiResp,         \* the decoded response, once fetched
  lines,           \* the filtered line items
  pc,              \* where main is
  stdout, stderr,  \* what has been written to each, in order
  exitCode,        \* the exit code, once pc = "exited"
  httpRequests,    \* client.Get calls issued
  call, ret,       \* a direct call of one pure function, and its result
  err              \* the error fetchLineStatuses returned ("nil": none)

vars == <<osArgs, i, args, jsonOutput, showVersion, showCopyright, showHelp,
          serviceFilter, apiResp, lines, pc, stdout, stderr, exitCode,
          httpRequests, call, ret, err>>

NoCall == [fn |-> "none"]
NoResp == [Status |-> FALSE, Data |-> <<>>]

Init ==
  /\ osArgs \in ArgLists
  /\ i = 1
  /\ args = <<>>
  /\ jsonOutput = FALSE /\ showVersion = FALSE
  /\ showCopyright = FALSE /\ showHelp = FALSE
  /\ serviceFilter = <<>>
  /\ apiResp = NoResp
  /\ lines = <<>>
  /\ pc = "parse"
  /\ stdout = <<>> /\ stderr = <<>>
  /\ exitCode = 0
  /\ httpRequests = 0
  /\ call = NoCall /\ ret = <<>>
  /\ err = "nil"

Msg(kind) == [msg |-> kind]

\* os.Exit(code) after writing errs to standard error
Fail(errs) ==
  /\ stderr' = stderr \o errs
  /\ exitCode' = 1
  /\ pc' = "exited"

\* os.Exit(0) after writing text to standard output
ExitWith(text) ==
  /\ stdout' = Append(stdout, text)
  /\ exitCode' = 0
  /\ pc' = "exited"

(***************************************************************************)
(* main, one action per step.                                              *)
(***************************************************************************)
\* One iteration of the flag-parsing loop.
ParseArg ==
  /\ pc = "parse" /\ i <= Len(osArgs)
  /\ LET arg == osArgs[i] IN
       IF arg \in {F_j, F_json, F_v, F_version, F_copyright, F_h, F_help}
          \/ ~HasDashPrefix(arg)
       THEN /\ jsonOutput' = (jsonOutput \/ arg \in {F_j, F_json})
            /\ showVersion' = (showVersion \/ arg \in {F_v, F_version})
            /\ showCopyright' = (showCopyright \/ arg = F_copyright)
            /\ showHelp' = (showHelp \/ arg \in {F_h, F_help})
            /\ args' = IF HasDashPrefix(arg) THEN args ELSE Append(args, arg)
            /\ i' = i + 1
            /\ UNCHANGED <<pc, stderr, exitCode>>
       ELSE /\ Fail(<<[msg |-> "unknown flag", arg |-> arg], Msg("usage hint")>>)
            /\ UNCHANGED <<jsonOutput, showVersion, showCopyright, showHelp, args, i>>
  /\ UNCHANGED <<osArgs, serviceFilter, apiResp, lines, stdout, httpRequests,
                 call, ret, err>>

\* The loop's condition fails: every argument has been read.
ParseDone ==
  /\ pc = "parse" /\ i > Len(osArgs)
  /\ pc' = "flags"
  /\ UNCHANGED <<osArgs, i, args, jsonOutput, showVersion, showCopyright,
                 showHelp, serviceFilter, apiResp, lines, stdout, stderr,
                 exitCode, httpRequests, call, ret, err>>

\* Variant of HandleInfoFlags that tests --version before --help.
HandleInfoFlagsVersionFirst ==
  /\ pc = "flags"
  /\ IF showVersion THEN ExitWith(Msg("version"))
     ELSE IF showHelp THEN ExitWith(Msg("usage"))
     ELSE IF showCopyright THEN ExitWith(Msg("copyright"))
     ELSE pc' = "service" /\ UNCHANGED <<stdout, exitCode>>
  /\ UNCHANGED <<osArgs, i, args, jsonOutput, showVersion, showCopyright,
                 showHelp, serviceFilter, apiResp, lines, stderr,
                 httpRequests, call, ret, err>>

\* The three early exits, in the order main tests them.
HandleInfoFlags ==
  /\ pc = "flags"
  /\ IF showHelp THEN ExitWith(Msg("usage"))
     ELSE IF showVersion THEN ExitWith(Msg("version"))
     ELSE IF showCopyright THEN ExitWith(Msg("copyright"))
     ELSE pc' = "service" /\ UNCHANGED <<stdout, exitCode>>
  /\ UNCHANGED <<osArgs, i, args, jsonOutput, showVersion, showCopyright,
                 showHelp, serviceFilter, apiResp, lines, stderr,
                 httpRequests, call, ret, err>>

\* The optional service filter, validated.
CheckService ==
  /\ pc = "service"
  /\ IF Len(args) > 0
     THEN /\ serviceFilter' = args[1]
          /\ IF ~isValidService(args[1])
             THEN Fail(<<[msg |-> "invalid service", arg |-> args[1]],
                         Msg("valid services")>>)
             ELSE pc' = "fetch" /\ UNCHANGED <<stderr, exitCode>>
     ELSE /\ pc' = "fetch"
          /\ UNCHANGED <<serviceFilter, stderr, exitCode>>
  /\ UNCHANGED <<osArgs, i, args, jsonOutput, showVersion, showCopyright,
                 showHelp, apiResp, lines, stdout, httpRequests, call, ret, err>>

\* fetchLineStatuses on one outcome of the exchange: the response and the
\* error it returns.
fetchLineStatuses(o) ==
  IF o.netErr THEN [resp |-> NoResp, err |-> "failed to fetch data"]
  ELSE IF o.statusCode # 200 THEN [resp |-> NoResp, err |-> "API returned status"]
  ELSE IF o.decodeErr THEN [resp |-> NoResp, err |-> "failed to parse response"]
  ELSE [resp |-> o.body, err |-> "nil"]

\* Variant of Fetch that tries a second time when the request fails.
FetchRetry ==
  /\ pc = "fetch"
  /\ httpRequests' = httpRequests + 1
  /\ \E o \in FetchOutcomes :
       LET r == fetchLineStatuses(o) IN
       /\ err' = r.err
       /\ IF r.err # "nil"
          THEN IF o.netErr /\ httpRequests = 0
               THEN UNCHANGED <<pc, stderr, exitCode, apiResp>>
               ELSE Fail(<<Msg(r.err)>>) /\ UNCHANGED apiResp
          ELSE /\ apiResp' = r.resp /\ pc' = "status"
               /\ UNCHANGED <<stderr, exitCode>>
  /\ UNCHANGED <<osArgs, i, args, jsonOutput, showVersion, showCopyright,
                 showHelp, serviceFilter, lines, stdout, call, ret>>

Fetch ==
  /\ pc = "fetch"
  /\ httpRequests' = httpRequests + 1
  /\ \E o \in FetchOutcomes :
       LET r == fetchLineStatuses(o) IN
       /\ err' = r.err
       /\ IF r.err # "nil"
          THEN Fail(<<Msg(r.err)>>) /\ UNCHANGED apiResp
          ELSE /\ apiResp' = r.resp /\ pc' = "status"
               /\ UNCHANGED <<stderr, exitCode>>
  /\ UNCHANGED <<osArgs, i, args, jsonOutput, showVersion, showCopyright,
                 showHelp, serviceFilter, lines, stdout, call, ret>>

CheckStatus ==
  /\ pc = "status"
  /\ IF ~apiResp.Status
     THEN Fail(<<Msg("API returned unsuccessful status")>>)
     ELSE pc' = "filter" /\ UNCHANGED <<stderr, exitCode>>
  /\ UNCHANGED <<osArgs, i, args, jsonOutput, showVersion, showCopyright,
                 showHelp, serviceFilter, apiResp, lines, stdout,
                 httpRequests, call, ret, err>>

\* Variant of Filter without the test for an empty result.
FilterNoEmptyTest ==
  /\ pc = "filter"
  /\ lines' = filterByService(apiResp.Data, serviceFilter)
  /\ pc' = "output"
  /\ UNCHANGED <<osArgs, i, args, jsonOutput, showVersion, showCopyright,
                 showHelp, serviceFilter, apiResp, stdout, stderr, exitCode,
                 httpRequests, call, ret, err>>

Filter ==
  /\ pc = "filter"
  /\ lines' = filterByService(apiResp.Data, serviceFilter)
  /\ IF Len(lines') = 0
     THEN Fail(<<Msg("No lines found")>>)
     ELSE pc' = "output" /\ UNCHANGED <<stderr, exitCode>>
  /\ UNCHANGED <<osArgs, i, args, jsonOutput, showVersion, showCopyright,
                 showHelp, serviceFilter, apiResp, stdout, httpRequests,
                 call, ret, err>>

\* fmt.Println()
PrintBlank ==
  /\ pc = "output"
  /\ stdout' = Append(stdout, [kind |-> "blank"])
  /\ pc' = IF jsonOutput THEN "json" ELSE "table"
  /\ UNCHANGED <<osArgs, i, args, jsonOutput, showVersion, showCopyright,
                 showHelp, serviceFilter, apiResp, lines, stderr, exitCode,
                 httpRequests, call, ret, err>>

\* printJSON(lines) and the test of its error.  Encode fails only when the
\* write to standard output does, having written nothing or a part of the
\* document.
OutputJSON ==
  /\ pc = "json"
  /\ \E w \in {"written", "nothing", "part"} :
       IF w = "written"
       THEN /\ stdout' = Append(stdout, printJSON(lines))
            /\ exitCode' = 0 /\ pc' = "exited"
            /\ UNCHANGED stderr
       ELSE /\ stdout' = IF w = "part"
                         THEN Append(stdout, [kind |-> "part"]) ELSE stdout
            /\ Fail(<<Msg("Error encoding JSON")>>)
  /\ UNCHANGED <<osArgs, i, args, jsonOutput, showVersion, showCopyright,
                 showHelp, serviceFilter, apiResp, lines, httpRequests,
                 call, ret, err>>

\* printTable(lines), and main returns.
OutputTable ==
  /\ pc = "table"
  /\ stdout' = Append(stdout, printTable(lines))
  /\ exitCode' = 0 /\ pc' = "exited"
  /\ UNCHANGED <<osArgs, i, args, jsonOutput, showVersion, showCopyright,
                 showHelp, serviceFilter, apiResp, lines, stderr,
                 httpRequests, call, ret, err>>

Next ==
  \/ ParseArg \/ ParseDone \/ HandleInfoFlags \/ CheckService \/ Fetch
  \/ CheckStatus \/ Filter \/ PrintBlank \/ OutputJSON \/ OutputTable

Spec == Init /\ [][Next]_vars

(***************************************************************************)
(* Direct calls of the pure functions, on inputs drawn from bounded sets   *)
(* of valid UTF-8 strings (what json.Decoder hands the program).           *)
(***************************************************************************)
\* Every concatenation of at most n of the given characters (each a byte
\* sequence).
RECURSIVE StringsOver(_, _)
StringsOver(chars, n) ==
  IF n = 0 THEN {<<>>}
  ELSE LET shorter == StringsOver(chars, n - 1) IN
       shorter \cup { s \o c : s \in shorter, c \in chars }

\* "-", " ", tab, "a", "B", "é", "É", no-break space
LabelChars ==
  {<<45>>, <<32>>, <<9>>, <<97>>, <<66>>, <<195,169>>, <<195,137>>, <<194,160>>}
LineLabels == StringsOver(LabelChars, MaxChars)

\* " ", tab, no-break space
PadChars == {<<32>>, <<9>>, <<194,160>>}
Pads == StringsOver(PadChars, MaxPad)

StatusCores ==
  { <<>>,
    S_operacoes_normais, S_operacoes_encerradas,
    S_Operacao_Normal, S_Operacao_Encerrada,
    \* "Operações Normais", "OPERAÇÕES NORMAIS"
    <<79,112,101,114,97,195,167,195,181,101,115,32,78,111,114,109,97,105,115>>,
    <<79,80,69,82,65,195,135,195,149,69,83,32,78,79,82,77,65,73,83>>,
    \* "Operações Encerradas", "OPERAÇÕES ENCERRADAS"
    <<79,112,101,114,97,195,167,195,181,101,115,32,69,110,99,101,114,114,97,100,97,115>>,
    <<79,80,69,82,65,195,135,195,149,69,83,32,69,78,67,69,82,82,65,68,65,83>>,
    \* "Operações  Normais" (two spaces), "Operacoes Normais"
    <<79,112,101,114,97,195,167,195,181,101,115,32,32,78,111,114,109,97,105,115>>,
    <<79,112,101,114,97,99,111,101,115,32,78,111,114,109,97,105,115>>,
    \* "Paralisada", "Velocidade Reduzida", "é"
    <<80,97,114,97,108,105,115,97,100,97>>,
    <<86,101,108,111,99,105,100,97,100,101,32,82,101,100,117,122,105,100,97>>,
    <<195,169>> }
Statuses == { l \o c \o r : l \in Pads, c \in StatusCores, r \in Pads }

BatchTypes == {S_metro, A_METRO, S_cptm, <<>>}
BatchLists == {<<>>, <<L_azul, L_amarela>>, <<L_coral>>, <<L_lilas, L_azul>>}
BatchPool == { Batch(ty, ls) : ty \in BatchTypes, ls \in BatchLists }
BatchSeqs == UNION { [1..n -> BatchPool] : n \in 0..MaxBatches }
ServiceStrings == {<<>>, S_metro, A_METRO, A_Cptm, A_bus}

\* "a", "B", quote, backslash, "<", newline, U+0001, "é", U+2028, "-", " "
JsonChars ==
  {<<97>>, <<66>>, <<34>>, <<92>>, <<60>>, <<10>>, <<1>>, <<195,169>>,
   <<226,128,168>>, <<45>>, <<32>>}
JsonStrings == StringsOver(JsonChars, MaxChars)
JsonItems ==
  { Item(<<49>>, s, S_operacoes_normais, S_verde) : s \in JsonStrings }
  \cup { Item(<<50>>, L_azul.Line, s, S_cinza) : s \in JsonStrings }
JsonFew == <<L_azul, L_lilas, Item(<<51>>, <<45,34>>, <<92,32>>, <<>>)>>
JsonLists ==
  { <<it>> : it \in JsonItems }
  \cup UNION { [1..n -> Range(JsonFew)] : n \in 1..MaxItems }

FnCalls ==
  { [fn |-> "formatLineName", line |-> s] : s \in LineLabels }
  \cup { [fn |-> "normalizeStatus", status |-> s] : s \in Statuses }
  \cup { [fn |-> "filterByService", data |-> d, service |-> sv]
           : d \in BatchSeqs, sv \in ServiceStrings }
  \cup { [fn |-> "printJSON", lines |-> ls] : ls \in JsonLists }

FnInit ==
  /\ call \in FnCalls
  /\ ret = <<>>
  /\ pc = "call"
  /\ osArgs = <<>> /\ i = 1 /\ args = <<>>
  /\ jsonOutput = FALSE /\ showVersion = FALSE
  /\ showCopyright = FALSE /\ showHelp = FALSE
  /\ serviceFilter = <<>> /\ apiResp = NoResp /\ lines = <<>>
  /\ stdout = <<>> /\ stderr = <<>> /\ exitCode = 0 /\ httpRequests = 0
  /\ err = "nil"

MainVars == <<osArgs, i, args, jsonOutput, showVersion, showCopyright,
              showHelp, serviceFilter, apiResp, lines, stderr, exitCode,
              httpRequests, err>>

CallFormatLineName ==
  /\ pc = "call" /\ call.fn = "formatLineName"
  /\ ret' = formatLineName(call.line)
  /\ pc' = "returned"
  /\ UNCHANGED <<MainVars, stdout, call>>

CallNormalizeStatus ==
  /\ pc = "call" /\ call.fn = "normalizeStatus"
  /\ ret' = normalizeStatus(call.status)
  /\ pc' = "returned"
  /\ UNCHANGED <<MainVars, stdout, call>>

CallFilterByService ==
  /\ pc = "call" /\ call.fn = "filterByService"
  /\ ret' = filterByService(call.data, call.service)
  /\ pc' = "returned"
  /\ UNCHANGED <<MainVars, stdout, call>>

\* printJSON writes its document to standard output and returns nil.
CallPrintJSON ==
  /\ pc = "call" /\ call.fn = "printJSON"
  /\ stdout' = Append(stdout, printJSON(call.lines))
  /\ ret' = "nil"
  /\ pc' = "returned"
  /\ UNCHANGED <<MainVars, call>>

FnNext ==
  \/ CallFormatLineName \/ CallNormalizeStatus
  \/ CallFilterByService \/ CallPrintJSON

FnSpec == FnInit /\ [][FnNext]_vars

(***************************************************************************)
(* What the properties say about a command line, stated on the argument    *)
(* list itself.                                                            *)
(***************************************************************************)
KnownFlags == {F_j, F_json, F_v, F_version, F_copyright, F_h, F_help}
InfoFlags == {F_h, F_help, F_v, F_version, F_copyright}

Dashed(a) == a # <<>> /\ Head(a) = 45

HasUnknownFlag(al) == \E k \in DOMAIN al : Dashed(al[k]) /\ al[k] \notin KnownFlags
HasInfoFlag(al) == \E k \in DOMAIN al : al[k] \in InfoFlags
HasJsonFlag(al) == \E k \in DOMAIN al : al[k] \in {F_j, F_json}

NotDashed(a) == ~Dashed(a)
Positionals(al) == SelectSeq(al, NotDashed)

\* Case-insensitively equal to one of the four service names.
NamesService(s) == ToLower(s) \in Range(validServices)

InvalidFirstPositional(al) ==
  Positionals(al) # <<>> /\ ~NamesService(Head(Positionals(al)))

\* The text the early exits print for a command line: help, then version,
\* then copyright.
InfoText(al) ==
  IF \E k \in DOMAIN al : al[k] \in {F_h, F_help} THEN Msg("usage")
  ELSE IF \E k \in DOMAIN al : al[k] \in {F_v, F_version} THEN Msg("version")
  ELSE Msg("copyright")

Exited == pc = "exited"

(***************************************************************************)
(* C1.  As claimed: whenever the first positional argument names no        *)
(* service, the run ends with exit code 1 and a message on standard error, *)
(* whatever flags accompany it.                                            *)
(***************************************************************************)
C1_AsClaimed ==
  (Exited /\ InvalidFirstPositional(osArgs))
    => (exitCode = 1 /\ stderr # <<>>)

(***************************************************************************)
(* C1, amended.  Whenever the first positional argument names no service,  *)
(* the run ends with exit code 1 and a message on standard error, unless   *)
(* the command line holds a help, version or copyright flag and no unknown *)
(* flag (then the text is printed and the run exits with 0).               *)
(***************************************************************************)
C1_InvalidServiceExits1 ==
  (Exited /\ InvalidFirstPositional(osArgs)
     /\ ~(HasInfoFlag(osArgs) /\ ~HasUnknownFlag(osArgs)))
    => (exitCode = 1 /\ stderr # <<>>)

C1_Witness ==
  /\ Exited /\ InvalidFirstPositional(osArgs)
  /\ HasJsonFlag(osArgs) /\ ~HasInfoFlag(osArgs) /\ ~HasUnknownFlag(osArgs)
  /\ exitCode = 1 /\ stderr[1].msg = "invalid service"

(***************************************************************************)
(* C2.  A command line holding an unknown flag, at any position and among  *)
(* any known flags and service names, ends with exit code 1, a message on  *)
(* standard error and nothing on standard output; nothing is written to    *)
(* standard output at any point of such a run.                             *)
(***************************************************************************)
C2_UnknownFlagExits1 ==
  HasUnknownFlag(osArgs) =>
    /\ stdout = <<>>
    /\ Exited => (exitCode = 1 /\ stderr # <<>>)

C2_Witness ==
  /\ Exited /\ Len(osArgs) = 3
  /\ osArgs[1] \in InfoFlags /\ osArgs[2] = S_metro
  /\ Dashed(osArgs[3]) /\ osArgs[3] \notin KnownFlags
  /\ exitCode = 1 /\ stderr[1].msg = "unknown flag"

(***************************************************************************)
(* C3.  As claimed: every command line holding a help, version or          *)
(* copyright flag prints the one corresponding text to standard output     *)
(* (help before version before copyright), writes nothing to standard      *)
(* error, issues no HTTP request and exits with 0.                         *)
(***************************************************************************)
C3_AsClaimed ==
  (Exited /\ HasInfoFlag(osArgs)) =>
    /\ exitCode = 0
    /\ stdout = <<InfoText(osArgs)>>
    /\ stderr = <<>>
    /\ httpRequests = 0

(***************************************************************************)
(* C3, amended.  Every command line holding a help, version or copyright   *)
(* flag and no unknown flag prints the one corresponding text to standard  *)
(* output (help before version before copyright), writes nothing to        *)
(* standard error, issues no HTTP request and exits with 0.                *)
(***************************************************************************)
C3_InfoFlagsExit0 ==
  (Exited /\ HasInfoFlag(osArgs) /\ ~HasUnknownFlag(osArgs)) =>
    /\ exitCode = 0
    /\ stdout = <<InfoText(osArgs)>>
    /\ stderr = <<>>
    /\ httpRequests = 0

C3_Witness ==
  /\ Exited /\ ~HasUnknownFlag(osArgs)
  /\ \E k \in DOMAIN osArgs : osArgs[k] \in {F_v, F_version}
  /\ \E k \in DOMAIN osArgs : osArgs[k] \in {F_h, F_help}
  /\ \E k \in DOMAIN osArgs : osArgs[k] = A_bus
  /\ stdout = <<Msg("usage")>> /\ exitCode = 0

(***************************************************************************)
(* C4.  The HTTP GET happens at most once, and only on a command line that *)
(* passed validation (no unknown flag, no help, version or copyright flag, *)
(* and a first positional argument, if any, that names a service); a run   *)
(* that ended on a failure of the request issued exactly that one request. *)
(***************************************************************************)
C4_AtMostOneRequest ==
  /\ httpRequests <= 1
  /\ httpRequests = 1 =>
       /\ ~HasUnknownFlag(osArgs) /\ ~HasInfoFlag(osArgs)
       /\ ~InvalidFirstPositional(osArgs)
  /\ (Exited /\ stderr # <<>>
        /\ stderr[1].msg \in {"unknown flag", "invalid service"})
       => httpRequests = 0
  /\ (Exited /\ stdout # <<>>
        /\ stdout[1] \in {Msg("usage"), Msg("version"), Msg("copyright")})
       => httpRequests = 0
  /\ (Exited /\ err # "nil") => httpRequests = 1

C4_Witness ==
  /\ Exited /\ httpRequests = 1 /\ err = "failed to fetch data"
  /\ Positionals(osArgs) # <<>> /\ exitCode = 1

(***************************************************************************)
(* C5.  Every failure ends the run with exit code 1, a message on standard *)
(* error and nothing at all on standard output.                            *)
(***************************************************************************)
C5_FailureLeavesNoOutput ==
  (stderr # <<>> \/ (Exited /\ exitCode # 0)) =>
    /\ Exited /\ exitCode = 1 /\ stderr # <<>>
    /\ stdout = <<>>

(***************************************************************************)
(* C6.  A run exits with 0 having written data only when the fetch         *)
(* succeeded, the response's status is true and the filtered list is not   *)
(* empty; standard output is then exactly a blank line followed by the     *)
(* JSON document if -j or --json is among the arguments and by the table   *)
(* otherwise, and standard error is empty.  When the filtered list is      *)
(* empty the run exits with 1, with a message on standard error.           *)
(***************************************************************************)
C6_SuccessOutput ==
  /\ (Exited /\ exitCode = 0 /\ ~HasInfoFlag(osArgs)) =>
       /\ httpRequests = 1 /\ err = "nil" /\ apiResp.Status
       /\ lines # <<>>
       /\ lines = filterByService(apiResp.Data, serviceFilter)
       /\ stdout = << [kind |-> "blank"],
                      IF HasJsonFlag(osArgs) THEN printJSON(lines)
                      ELSE printTable(lines) >>
       /\ stderr = <<>>
  /\ (Exited /\ httpRequests = 1 /\ err = "nil" /\ apiResp.Status
        /\ filterByService(apiResp.Data, serviceFilter) = <<>>) =>
       /\ exitCode = 1 /\ stderr = <<Msg("No lines found")>> /\ stdout = <<>>

C6_Witness ==
  /\ Exited /\ exitCode = 0 /\ osArgs = <<A_Cptm, F_json>>
  /\ Len(lines) = 2 /\ Len(stdout) = 2 /\ stdout[2].kind = "json"

(***************************************************************************)
(* What the properties say about strings, stated on runes.                 *)
(***************************************************************************)
Returned(fn) == pc = "returned" /\ call.fn = fn

EncodeRunes(rs) == Flatten([k \in DOMAIN rs |-> EncodeRune(rs[k])])

\* rs without its leading and trailing white space.
TrimmedRunes(rs) ==
  LET keep == { k \in DOMAIN rs : ~UnicodeIsSpace(rs[k]) } IN
  IF keep = {} THEN <<>>
  ELSE LET a == CHOOSE k \in keep : \A j \in keep : k <= j
           b == CHOOSE k \in keep : \A j \in keep : j <= k
       IN SubSeq(rs, a, b)

\* The runes after the last "-" (all of them when there is none).
AfterLastDash(rs) ==
  LET ds == { k \in DOMAIN rs : rs[k] = 45 } IN
  IF ds = {} THEN rs
  ELSE SubSeq(rs, (CHOOSE k \in ds : \A j \in ds : j <= k) + 1, Len(rs))

\* First letter upper-cased, the remaining letters lower-cased.
TitleCased(rs) ==
  [k \in DOMAIN rs |->
    IF k = 1 THEN UnicodeToUpper(rs[k]) ELSE UnicodeToLower(rs[k])]

\* "Operações Normais", "Operações Encerradas"
P_Operacoes_Normais ==
  <<79,112,101,114,97,195,167,195,181,101,115,32,78,111,114,109,97,105,115>>
P_Operacoes_Encerradas ==
  <<79,112,101,114,97,195,167,195,181,101,115,32,69,110,99,101,114,114,97,100,97,115>>

\* The batches filterByService is to select, in source order.
IsSelected(b, service) ==
  service = <<>> \/ ToLower(b.Type) = ToLower(service)

Selected(data, service) ==
  LET keep == { k \in DOMAIN data : IsSelected(data[k], service) }
      RECURSIVE from(_)
      from(k) == IF k > Len(data) THEN <<>>
                 ELSE (IF k \in keep THEN <<data[k].ListItem>> ELSE <<>>)
                      \o from(k + 1)
  IN from(1)

(***************************************************************************)
(* C7.  filterByService returns exactly the concatenation, in batch order  *)
(* and then item order, of the line items of the batches it selects: all   *)
(* of them for the empty service string, otherwise those whose operator    *)
(* type equals the service string case-insensitively.                      *)
(***************************************************************************)
C7_FilterConcatenates ==
  Returned("filterByService") =>
    ret = Flatten(Selected(call.data, call.service))

C7_Witness ==
  /\ Returned("filterByService")
  /\ call.service = A_METRO /\ Len(call.data) = 2
  /\ call.data[1].Type = S_cptm /\ call.data[1].ListItem # <<>>
  /\ call.data[2].Type = S_metro
  /\ ret = <<L_lilas, L_azul>>

(***************************************************************************)
(* C8.  Decoding the document printJSON writes yields code 200, message    *)
(* "success" and one data entry per input line, entry k holding            *)
(* formatLineName of line k's label and normalizeStatus of its status:     *)
(* the names and statuses of printTable's rows, in the same order.         *)
(***************************************************************************)
C8_JsonRoundTrip ==
  Returned("printJSON") =>
    LET out == DecodeOutput(stdout[Len(stdout)])
        rows == printTable(call.lines).rows
    IN /\ out.Code = 200
       /\ out.Message = S_success
       /\ Len(out.Data) = Len(call.lines)
       /\ \A k \in DOMAIN call.lines :
            /\ out.Data[k].Line = formatLineName(call.lines[k].Line)
            /\ out.Data[k].Status = normalizeStatus(call.lines[k].Status)
            /\ out.Data[k].Line = rows[k].name
            /\ out.Data[k].Status = rows[k].status

\* A status holding a quote, a backslash and "<" went through.
C8_Witness ==
  /\ Returned("printJSON") /\ Len(call.lines) = 1
  /\ call.lines[1].Status = <<34, 92, 60>>
  /\ stdout[1].data[1].status = <<34, 92,34, 92,92, 92,117,48,48,51,99, 34>>
  /\ DecodeOutput(stdout[1]).Data[1].Status = <<34, 92, 60>>

(***************************************************************************)
(* C9.  As claimed: normalizeStatus maps the trimmed phrase "Operações     *)
(* Normais" to "Operação Normal" and "Operações Encerradas" to "Operação   *)
(* Encerrada", and every other status to itself with its leading and       *)
(* trailing white space removed, letter case preserved.                    *)
(***************************************************************************)
C9_AsClaimed ==
  Returned("normalizeStatus") =>
    LET tr == EncodeRunes(TrimmedRunes(Runes(call.status))) IN
    ret = IF tr = P_Operacoes_Normais THEN S_Operacao_Normal
          ELSE IF tr = P_Operacoes_Encerradas THEN S_Operacao_Encerrada
          ELSE tr

(***************************************************************************)
(* C9, amended.  normalizeStatus maps a status that, trimmed, equals       *)
(* "Operações Normais" ignoring letter case to "Operação Normal", one that *)
(* equals "Operações Encerradas" ignoring letter case to "Operação         *)
(* Encerrada", and every other status to itself with its leading and       *)
(* trailing white space removed and nothing else changed; normalizeStatus  *)
(* is idempotent.                                                          *)
(***************************************************************************)
C9_NormalizeStatus ==
  Returned("normalizeStatus") =>
    LET tr == EncodeRunes(TrimmedRunes(Runes(call.status))) IN
    /\ ret = IF EqualFold(tr, P_Operacoes_Normais) THEN S_Operacao_Normal
             ELSE IF EqualFold(tr, P_Operacoes_Encerradas) THEN S_Operacao_Encerrada
             ELSE tr
    /\ normalizeStatus(ret) = ret

\* "OPERAÇÕES NORMAIS" between white space
C9_Witness ==
  /\ Returned("normalizeStatus")
  /\ call.status = <<194,160>>
       \o <<79,80,69,82,65,195,135,195,149,69,83,32,78,79,82,77,65,73,83>>
       \o <<9>>
  /\ ret = S_Operacao_Normal

(***************************************************************************)
(* C10.  formatLineName returns the text after the last "-" of the label   *)
(* (the whole label when it holds none) with the surrounding white space   *)
(* removed, its first letter upper-cased and its remaining letters         *)
(* lower-cased; the empty string when that segment is empty or white       *)
(* space only.                                                             *)
(***************************************************************************)
C10_FormatLineName ==
  Returned("formatLineName") =>
    ret = EncodeRunes(TitleCased(TrimmedRunes(AfterLastDash(Runes(call.line)))))

=============================================================================
